---- MODULE Spec2Model ----
(***************************************************************************)
(* Model of the transaction confirmation tracker (TransactionMonitor,      *)
(* apex-sdk-substrate/src/monitor.rs) and of the dynamic fee estimator     *)
(* (DynamicFeeEstimator, apex-sdk-substrate/src/fee_estimator.rs).         *)
(*                                                                         *)
(* Time is counted in seconds.  A handle's submitted_at is kept as the     *)
(* time elapsed since it was taken (age), saturating just above            *)
(* MAX_WATCH_DURATION, so that the comparison made by the cleanup is exact *)
(* and the state space stays finite.  The statuses sent and the metrics    *)
(* signals emitted are kept for the step that produced them only.          *)
(***************************************************************************)
EXTENDS Integers, FiniteSets, Sequences, TLC

\* ---------------------------------------------------------------- bounds
MaxBlock == 2
MaxRequired == 1

\* ------------------------------------------------------ program constants
MAX_WATCH_DURATION == 300
CLEANUP_INTERVAL == 30
SUBSCRIBE_BACKOFF == 5

\* ------------------------------------------------------------ input sets
\* the calls of watch_transaction, in the order they are made
WatchIds == {1, 2}
BlockNumbers == 1..MaxBlock
\* hashes as the monitor computes them for extrinsics ("0x" + hex of blake2_256)
Hashes == {"0xaa"}
\* strings a caller may pass that are no such hash
BadHashes == {"nothex"}
AllHashes == Hashes \cup BadHashes
TimeoutChoices == {60}
TimeSteps == {MAX_WATCH_DURATION \div 2}
AgeCap == MAX_WATCH_DURATION + CLEANUP_INTERVAL \div 2

Min(a, b) == IF a < b THEN a ELSE b

\* Option<T> is a sequence of length 0 (None) or 1 (Some)
None == <<>>
Some(v) == <<v>>
EmptyMap == [h \in {} |-> None]

\* ------------------------------------------------- ConfirmationStrategy
Immediate == [kind |-> "Immediate"]
FinalizedStrategy(t) == [kind |-> "Finalized", timeout_secs |-> t]
BlockConfirmations(c, t) ==
    [kind |-> "BlockConfirmations", confirmations |-> c, timeout_secs |-> t]
Strategies ==
    {Immediate}
    \cup {FinalizedStrategy(t) : t \in TimeoutChoices}
    \cup {BlockConfirmations(c, t) : c \in 0..MaxRequired, t \in TimeoutChoices}

\* ---------------------------------------------------- TransactionStatus
StatusFinalized(bn, bh, conf) ==
    [kind |-> "Finalized", block_number |-> bn, block_hash |-> bh,
     confirmations |-> conf]
StatusFailed(reason) == [kind |-> "Failed", reason |-> reason]

\* ------------------------------------------------------------- the chain
\* block.hash() rendered as "0x" + hex: one distinct string per block
BlockHashOf(n) == "0xb" \o ToString(n)
\* one extrinsic of a block as the monitor reads it: present or not, whether
\* events() decoded, and the System events it carries
EventSets == SUBSET {"ExtrinsicSuccess", "ExtrinsicFailed"}
Absent == [present |-> FALSE, decoded |-> FALSE, events |-> {}]
EventsErr == [present |-> TRUE, decoded |-> FALSE, events |-> {}]
Extrinsics ==
    {Absent, EventsErr}
    \cup {[present |-> TRUE, decoded |-> TRUE, events |-> e] : e \in EventSets}
\* the extrinsics of a block, by computed hash
BlockContents == [Hashes -> Extrinsics]

\* ============================================= DynamicFeeEstimator: data
\* Amounts are in Planck.  The f64 multipliers are kept in tenths and the
\* f64 block fullness as an exact fraction in lowest terms; the elapsed time
\* of last_updated is kept as the snapshot's age in seconds, negative when
\* the system clock was set back behind last_updated.

\* highest number of the latest block of the chain
MaxLatest == 1
\* largest capacity of the accuracy window (max_metrics of with_config)
MaxMetrics == 3

CONGESTION_UPDATE_INTERVAL == 30
BLOCKS_TO_ANALYZE == 10
\* max_block_weight over the weight counted per extrinsic
\* (2_000_000_000_000 / 200_000_000)
MAX_BLOCK_EXTRINSICS == 10000
DEFAULT_AVG_FEE == 100000
FeeTimeStep == CONGESTION_UPDATE_INTERVAL \div 2
FeeAgeCap == CONGESTION_UPDATE_INTERVAL + FeeTimeStep

Ok(v) == [ok |-> TRUE, value |-> v]
Err(e) == [ok |-> FALSE, error |-> e]

RECURSIVE GCD(_, _)
GCD(a, b) == IF b = 0 THEN a ELSE GCD(b, a % b)
Ratio(n, d) == LET g == GCD(n, d) IN [num |-> n \div g, den |-> d \div g]

RECURSIVE SeqSum(_)
SeqSum(s) == IF s = <<>> THEN 0 ELSE Head(s) + SeqSum(Tail(s))

\* ----------------------------------------------------------- FeeStrategy
FeeStrategies == {"Fast", "Normal", "Slow"}
FeeStrategy_multiplier(s) ==
    CASE s = "Fast" -> 15
      [] s = "Normal" -> 12
      [] s = "Slow" -> 10
\* as FeeStrategy_tip, with the tips of Fast and Normal exchanged
FeeStrategy_tip_exchanged(s) ==
    CASE s = "Fast" -> 100000
      [] s = "Normal" -> 1000000
      [] s = "Slow" -> 0

\* as FeeStrategy_tip, with the tips of Fast and Slow exchanged
FeeStrategy_tip_reversed(s) ==
    CASE s = "Fast" -> 0
      [] s = "Normal" -> 100000
      [] s = "Slow" -> 1000000

FeeStrategy_tip(s) ==
    CASE s = "Fast" -> 1000000
      [] s = "Normal" -> 100000
      [] s = "Slow" -> 0

\* #[default]
FeeStrategy_default == "Normal"

\* ----------------------------------------------------- NetworkCongestion
\* as NetworkCongestion_new, with the two thresholds included in the level
\* above them
NetworkCongestion_new_inclusive(avg_block_fullness, avg_fee, blocks_analyzed) ==
    [level |-> IF avg_block_fullness.num * 10 >= 8 * avg_block_fullness.den
               THEN "High"
               ELSE IF avg_block_fullness.num * 10 >= 5 * avg_block_fullness.den
               THEN "Medium"
               ELSE "Low",
     avg_block_fullness |-> avg_block_fullness,
     avg_fee |-> avg_fee,
     blocks_analyzed |-> blocks_analyzed,
     age |-> 0]

NetworkCongestion_new(avg_block_fullness, avg_fee, blocks_analyzed) ==
    [level |-> IF avg_block_fullness.num * 10 > 8 * avg_block_fullness.den
               THEN "High"
               ELSE IF avg_block_fullness.num * 10 > 5 * avg_block_fullness.den
               THEN "Medium"
               ELSE "Low",
     avg_block_fullness |-> avg_block_fullness,
     avg_fee |-> avg_fee,
     blocks_analyzed |-> blocks_analyzed,
     age |-> 0]
NetworkCongestion_multiplier(c) ==
    CASE c.level = "Low" -> 10
      [] c.level = "Medium" -> 11
      [] c.level = "High" -> 13
NetworkCongestion_default ==
    [level |-> "Low", avg_block_fullness |-> Ratio(0, 1), avg_fee |-> 0,
     blocks_analyzed |-> 0, age |-> 0]

\* ----------------------------------------------------------- FeeEstimate
\* as FeeEstimate_new, with the tip left out of the total
FeeEstimate_new_untipped(base_fee, length_fee, weight_fee, tip, strategy, cong, weight) ==
    [total_fee |-> base_fee + length_fee + weight_fee,
     base_fee |-> base_fee, length_fee |-> length_fee,
     weight_fee |-> weight_fee, tip |-> tip, strategy |-> strategy,
     congestion |-> cong, weight |-> weight]

FeeEstimate_new(base_fee, length_fee, weight_fee, tip, strategy, cong, weight) ==
    [total_fee |-> base_fee + length_fee + weight_fee + tip,
     base_fee |-> base_fee, length_fee |-> length_fee,
     weight_fee |-> weight_fee, tip |-> tip, strategy |-> strategy,
     congestion |-> cong, weight |-> weight]

\* ------------------------------------------------- the chain, as queried
\* what one block yields when analyzed: an error (the latest block, a parent
\* or the extrinsics cannot be fetched), or the number of extrinsics whose
\* events can be read and the amounts of their TransactionFeePaid events
AnalysisErr == [readable |-> FALSE]
AnalyzedBlocks ==
    { [readable |-> TRUE, extrinsics |-> 5000, fees |-> <<>>],
      [readable |-> TRUE, extrinsics |-> 8000, fees |-> <<300000, 100001>>],
      [readable |-> TRUE, extrinsics |-> 12000, fees |-> <<>>] }
BlockAnalyses == {AnalysisErr} \cup AnalyzedBlocks
\* blocks().at_latest() fails, or yields the latest block of a chain
Unreachable ==
    [at_latest |-> FALSE, latest_number |-> 0,
     blocks |-> [b \in 0..0 |-> AnalysisErr]]
ChainViews ==
    {Unreachable}
    \cup UNION { { [at_latest |-> TRUE, latest_number |-> n, blocks |-> bs]
                   : bs \in [0..n -> BlockAnalyses] } : n \in 0..MaxLatest }
\* TransactionPaymentApi_query_info: a transport failure, a result that does
\* not decode, or a RuntimeDispatchInfo
QueryResults ==
    { Err("Connection"), Err("Transaction"),
      Ok([partial_fee |-> 125001, ref_time |-> 150500000, proof_size |-> 0]) }
ExtrinsicLengths == {100, 101, 200, 201}

\* ===================================================================== f64
\* The f64 arithmetic of the accuracy statistics, with the rounding of IEEE
\* 754 binary64 (to nearest, ties to even).  A non-negative f64 is zero or
\* m * 2^e with a mantissa m of MANTISSA_BITS bits; the values computed here
\* are far from the subnormal and the infinite ones.  A mantissa is a natural
\* number of any size: its digits in radix 2^DigitBits, the least
\* significant first, without a leading zero digit.
MANTISSA_BITS == 53
DigitBits == 15
Radix == 2^DigitBits

RECURSIVE BN(_)
BN(n) == IF n = 0 THEN <<>> ELSE <<n % Radix>> \o BN(n \div Radix)

RECURSIVE Trim(_)
Trim(x) ==
    IF x # <<>> /\ x[Len(x)] = 0 THEN Trim(SubSeq(x, 1, Len(x) - 1)) ELSE x

\* x * k + c, for 0 <= k <= Radix
RECURSIVE BNMulSmall(_, _, _)
BNMulSmall(x, k, c) ==
    IF x = <<>> THEN BN(c)
    ELSE LET t == Head(x) * k + c
         IN  <<t % Radix>> \o BNMulSmall(Tail(x), k, t \div Radix)

\* quotient (untrimmed) and remainder of x by n, for 0 < n <= Radix
RECURSIVE BNDivRem(_, _)
BNDivRem(x, n) ==
    IF x = <<>> THEN [q |-> <<>>, r |-> 0]
    ELSE LET hi == BNDivRem(Tail(x), n)
             t == hi.r * Radix + Head(x)
         IN  [q |-> <<t \div n>> \o hi.q, r |-> t % n]

RECURSIVE BNAdd(_, _, _)
BNAdd(x, y, c) ==
    IF x = <<>> /\ y = <<>> THEN BN(c)
    ELSE LET a == IF x = <<>> THEN 0 ELSE Head(x)
             b == IF y = <<>> THEN 0 ELSE Head(y)
             t == a + b + c
         IN  <<t % Radix>>
             \o BNAdd(IF x = <<>> THEN x ELSE Tail(x),
                      IF y = <<>> THEN y ELSE Tail(y), t \div Radix)

RECURSIVE SmallBitLen(_)
SmallBitLen(d) == IF d = 0 THEN 0 ELSE 1 + SmallBitLen(d \div 2)

BitLen(x) ==
    IF x = <<>> THEN 0
    ELSE (Len(x) - 1) * DigitBits + SmallBitLen(x[Len(x)])

IsOdd(x) == x # <<>> /\ x[1] % 2 = 1

\* x < y, for trimmed x and y
RECURSIVE BNLess(_, _)
BNLess(x, y) ==
    IF Len(x) # Len(y) THEN Len(x) < Len(y)
    ELSE IF x = <<>> THEN FALSE
    ELSE IF x[Len(x)] # y[Len(y)] THEN x[Len(x)] < y[Len(y)]
    ELSE BNLess(SubSeq(x, 1, Len(x) - 1), SubSeq(y, 1, Len(y) - 1))

\* x * 2^s
ShiftLeft(x, s) ==
    IF x = <<>> THEN x
    ELSE [i \in 1..(s \div DigitBits) |-> 0]
         \o BNMulSmall(x, 2^(s % DigitBits), 0)

\* x \div 2^s, and whether a one was shifted out
ShiftRight(x, s) ==
    LET whole == s \div DigitBits
        rest == IF whole >= Len(x) THEN <<>>
                ELSE SubSeq(x, whole + 1, Len(x))
        dr == BNDivRem(rest, 2^(s % DigitBits))
    IN  [q |-> Trim(dr.q),
         sticky |-> dr.r # 0
                    \/ \E i \in 1..Min(whole, Len(x)) : x[i] # 0]

F64Zero == [m |-> <<>>, e |-> 0]

\* the f64 nearest to n / d * 2^e, for a natural n > 0 and 0 < d <= Radix
RoundToF64(n, d, e) ==
    LET need == MANTISSA_BITS + 2 + BitLen(BN(d)) - BitLen(n)
        k == IF need > 0 THEN need ELSE 0
        dr == BNDivRem(ShiftLeft(n, k), d)
        q == Trim(dr.q)
        t == BitLen(q) - (MANTISSA_BITS + 1)
        sh == ShiftRight(q, t)
        sticky == sh.sticky \/ dr.r # 0
        m0 == Trim(BNDivRem(sh.q, 2).q)
        up == IsOdd(sh.q) /\ (sticky \/ IsOdd(m0))
        m == IF up THEN BNAdd(m0, <<1>>, 0) ELSE m0
        e0 == e - k + t + 1
    IN  IF BitLen(m) > MANTISSA_BITS
        THEN [m |-> Trim(BNDivRem(m, 2).q), e |-> e0 + 1]
        ELSE [m |-> m, e |-> e0]

\* a as f64 / b as f64, for integers 0 <= a and 0 < b <= Radix that are
\* f64 themselves
F64Ratio(a, b) == IF a = 0 THEN F64Zero ELSE RoundToF64(BN(a), b, 0)

\* x * k as f64 and x / n as f64, for small integers k and n
F64Times(x, k) ==
    IF x.m = <<>> THEN x ELSE RoundToF64(BNMulSmall(x.m, k, 0), 1, x.e)
F64Over(x, n) == IF x.m = <<>> THEN x ELSE RoundToF64(x.m, n, x.e)

F64Plus(x, y) ==
    IF x.m = <<>> THEN y
    ELSE IF y.m = <<>> THEN x
    ELSE LET lo == Min(x.e, y.e)
         IN  RoundToF64(BNAdd(ShiftLeft(x.m, x.e - lo),
                              ShiftLeft(y.m, y.e - lo), 0), 1, lo)

F64Less(x, y) ==
    IF y.m = <<>> THEN FALSE
    ELSE IF x.m = <<>> THEN TRUE
    ELSE IF x.e # y.e THEN x.e < y.e
    ELSE BNLess(x.m, y.m)

\* f64::max and f64::min
F64Max(x, y) == IF F64Less(x, y) THEN y ELSE x
F64Min(x, y) == IF F64Less(y, x) THEN y ELSE x

VARIABLES
    pc,         \* position of the monitor task
    queue,      \* registrations sent on watch_tx, not yet received
    pending,    \* pending_txs: hash -> TxWatchHandle
    timer,      \* seconds elapsed since the current sleep was created
    lastBlock,  \* number of the last block the stream delivered
    calls,      \* number of watch_transaction calls made so far
    rx,         \* per call: state of the returned receiver
    rejected,   \* the calls whose registration could not be queued (logged)
    nsent,      \* per call: how many times sender.send ran for it
    delivered,  \* the statuses passed to sender.send in the last step
    signals,    \* the metrics signals emitted in the last step
    congestion, \* DynamicFeeEstimator.congestion: the cached snapshot
    accuracy_metrics, \* DynamicFeeEstimator.accuracy_metrics, oldest first
    max_metrics,      \* DynamicFeeEstimator.max_metrics
    recorded,   \* number of record_actual_fee calls that have returned
    overflow_checks,  \* whether the build panics on integer overflow
    call,       \* the arguments of the last estimate_fee call
    estimate,   \* the result of the last estimate_fee call
    observed,   \* the last call of another operation, with what it returned
    tasks       \* per concurrent caller of the estimator: where its call is

monVars == <<pc, queue, pending, timer, lastBlock, calls, rx, rejected,
             nsent, delivered, signals>>
accVars == <<accuracy_metrics, max_metrics, recorded, overflow_checks>>
feeVars == <<congestion, accVars, call, estimate, observed, tasks>>
vars == <<monVars, feeVars>>

NoSignals == [success |-> 0, failure |-> 0]

\* the tasks that call the estimator concurrently; a task that is in no call
Callers == {1, 2}
IdleTask == [pc |-> "idle", local |-> None, value |-> None]

\* the state once the monitor and an estimator keeping at most max metrics
\* are constructed, in a build with or without overflow checks
Constructed(max, checks) ==
    /\ pc = "subscribing"
    /\ queue = <<>>
    /\ pending = EmptyMap
    /\ timer = 0
    /\ lastBlock = 0
    /\ calls = 0
    /\ rx = [i \in WatchIds |-> "NotCreated"]
    /\ rejected = {}
    /\ nsent = [i \in WatchIds |-> 0]
    /\ delivered = EmptyMap
    /\ signals = NoSignals
    /\ congestion = NetworkCongestion_default
    /\ accuracy_metrics = <<>>
    /\ max_metrics = max
    /\ recorded = 0
    /\ overflow_checks = checks
    /\ call = None
    /\ estimate = None
    /\ observed = None
    /\ tasks = [t \in Callers |-> IdleTask]

Init == Constructed(MaxMetrics, FALSE)

\* nothing is sent and no signal is emitted in this step
Quiet == delivered' = EmptyMap /\ signals' = NoSignals

\* dropping a oneshot sender without sending closes a waiting receiver
CloseRx(r, ids) ==
    [i \in WatchIds |-> IF i \in ids /\ r[i] = "Waiting" THEN "Closed" ELSE r[i]]

\* let _ = handle.sender.send(status): the receiver gets the value unless it
\* was dropped, and the result of send is ignored
SendRx(r, ids) ==
    [i \in WatchIds |-> IF i \in ids /\ r[i] = "Waiting" THEN "Received" ELSE r[i]]

\* ------------------------------------------------------ watch_transaction
\* as Enqueue, but only a well-formed hash is queued
EnqueueValidated(q, m) == IF m.hash \in Hashes THEN Append(q, m) ELSE q

\* watch_tx.send(m): the message joins the queue whatever its hash is
Enqueue(q, m) == Append(q, m)

\* as RxAfterSend, with the sender of a rejected message kept alive
RxAlwaysWaiting(sendOk) == "Waiting"

\* the receiver returned after watch_tx.send: when the send fails the
\* message comes back in the error and is dropped with the sender in it
RxAfterSend(sendOk) == IF sendOk THEN "Waiting" ELSE "Closed"

watch_transaction(tx_hash, strategy) ==
    /\ calls + 1 \in WatchIds
    /\ LET i == calls + 1
           m == [id |-> i, hash |-> tx_hash, strategy |-> strategy]
           sendOk == pc # "terminated"
       IN  /\ calls' = i
           /\ queue' = IF sendOk THEN Enqueue(queue, m) ELSE queue
           /\ rejected' = IF sendOk THEN rejected ELSE rejected \cup {i}
           /\ rx' = [rx EXCEPT ![i] = RxAfterSend(sendOk)]
    /\ Quiet
    /\ UNCHANGED <<pc, pending, timer, lastBlock, nsent, feeVars>>

\* the caller drops the receiver it was given
DropReceiver(i) ==
    /\ rx[i] = "Waiting"
    /\ rx' = [rx EXCEPT ![i] = "Dropped"]
    /\ Quiet
    /\ UNCHANGED <<pc, queue, pending, timer, lastBlock, calls, rejected, nsent, feeVars>>

\* ------------------------------------------------------------ run_monitor
SubscribeOk ==
    /\ pc = "subscribing"
    /\ pc' = "subscribed"
    /\ timer' = 0
    /\ Quiet
    /\ UNCHANGED <<queue, pending, lastBlock, calls, rx, rejected, nsent, feeVars>>

SubscribeFail ==
    /\ pc = "subscribing"
    /\ pc' = "backoff"
    /\ timer' = 0
    /\ Quiet
    /\ UNCHANGED <<queue, pending, lastBlock, calls, rx, rejected, nsent, feeVars>>

BackoffElapsed ==
    /\ pc = "backoff"
    /\ timer >= SUBSCRIBE_BACKOFF
    /\ pc' = "subscribing"
    /\ timer' = 0
    /\ Quiet
    /\ UNCHANGED <<queue, pending, lastBlock, calls, rx, rejected, nsent, feeVars>>

\* seen is not a field of TxWatchHandle: it remembers the extrinsic that set
\* first_seen_block, for the properties
NewHandle(m) ==
    [id |-> m.id, strategy |-> m.strategy, age |-> 0, first_seen |-> None,
     seen |-> Absent]

\* as Insert, with the handle of a key that is in the map kept
InsertIfAbsent(map, k, v) ==
    [h \in DOMAIN map \cup {k} |-> IF h \in DOMAIN map THEN map[h] ELSE v]

Insert(map, k, v) ==
    [h \in DOMAIN map \cup {k} |-> IF h = k THEN v ELSE map[h]]

\* as Remove, but the handles stay in the map
RemoveNothing(map, ks) == map

\* as Remove, but a handle whose receiver is gone stays in the map
RemoveUnlessDropped(map, ks) ==
    [h \in DOMAIN map \ {k \in ks : rx[map[k].id] # "Dropped"} |-> map[h]]

Remove(map, ks) == [h \in DOMAIN map \ ks |-> map[h]]

\* select! branch: watch_rx.recv()
RecvRegistration ==
    /\ pc = "subscribed"
    /\ queue # <<>>
    /\ LET m == Head(queue)
           replaced == IF m.hash \in DOMAIN pending
                       THEN {pending[m.hash].id} ELSE {}
       IN  /\ pending' = Insert(pending, m.hash, NewHandle(m))
           /\ rx' = CloseRx(rx, replaced)
    /\ queue' = Tail(queue)
    /\ timer' = 0
    /\ Quiet
    /\ UNCHANGED <<pc, lastBlock, calls, rejected, nsent, feeVars>>

\* select! branch: subscription.next() yields Some(Err(e))
StreamError ==
    /\ pc = "subscribed"
    /\ pc' = "subscribing"
    /\ timer' = 0
    /\ Quiet
    /\ UNCHANGED <<queue, pending, lastBlock, calls, rx, rejected, nsent, feeVars>>

\* as StreamEnded, with the pending set emptied by the reconnect
StreamEndedDropping ==
    /\ pc = "subscribed"
    /\ pc' = "subscribing"
    /\ pending' = EmptyMap
    /\ timer' = 0
    /\ Quiet
    /\ UNCHANGED <<queue, lastBlock, calls, rx, rejected, nsent, feeVars>>

\* select! branch: subscription.next() yields None
StreamEnded ==
    /\ pc = "subscribed"
    /\ pc' = "subscribing"
    /\ timer' = 0
    /\ Quiet
    /\ UNCHANGED <<queue, pending, lastBlock, calls, rx, rejected, nsent, feeVars>>

\* the spawned task stops (panic or runtime shutdown): watch_rx and
\* pending_txs are dropped with every sender they hold
MonitorTerminates ==
    /\ pc # "terminated"
    /\ pc' = "terminated"
    /\ rx' = CloseRx(rx, {queue[k].id : k \in 1..Len(queue)}
                          \cup {pending[h].id : h \in DOMAIN pending})
    /\ queue' = <<>>
    /\ pending' = EmptyMap
    /\ timer' = 0
    /\ Quiet
    /\ UNCHANGED <<lastBlock, calls, rejected, nsent, feeVars>>

\* time passes: every handle ages, the current sleep gets closer to ready
Advance(d) ==
    /\ pc # "terminated"
    /\ pending' = [h \in DOMAIN pending |->
                     [pending[h] EXCEPT !.age = Min(@ + d, AgeCap)]]
    /\ timer' = IF pc \in {"subscribed", "backoff"}
                THEN Min(timer + d, CLEANUP_INTERVAL) ELSE timer
    /\ Quiet
    /\ UNCHANGED <<pc, queue, lastBlock, calls, rx, rejected, nsent, feeVars>>

\* ------------------------------------------------ process_finalized_block
\* (success, error_msg) of one extrinsic, from its events
ExtrinsicOutcome(ext, block_number) ==
    IF ext.decoded
    THEN [success |-> "ExtrinsicSuccess" \in ext.events,
          error_msg |-> IF "ExtrinsicFailed" \in ext.events
                        THEN Some("Extrinsic failed at block "
                                  \o ToString(block_number))
                        ELSE None]
    ELSE [success |-> FALSE, error_msg |-> Some("Failed to fetch events")]

BlockTxHashes(content, block_number) ==
    [h \in {x \in Hashes : content[x].present} |->
        ExtrinsicOutcome(content[h], block_number)]

\* as MarkFirstSeen, without the test for first_seen_block.is_none()
MarkFirstSeenAgain(handle, tx_hash, content, block_number) ==
    IF tx_hash \in DOMAIN BlockTxHashes(content, block_number)
    THEN [handle EXCEPT !.first_seen = Some(block_number),
                        !.seen = content[tx_hash]]
    ELSE handle

MarkFirstSeen(handle, tx_hash, content, block_number) ==
    IF tx_hash \in DOMAIN BlockTxHashes(content, block_number)
       /\ handle.first_seen = None
    THEN [handle EXCEPT !.first_seen = Some(block_number),
                        !.seen = content[tx_hash]]
    ELSE handle

\* as Confirmations, counting the block of first sight as a confirmation
ConfirmationsInclusive(block_number, first_seen) ==
    IF block_number >= first_seen THEN block_number - first_seen + 1 ELSE 0

\* block_number.saturating_sub(first_seen)
Confirmations(block_number, first_seen) ==
    IF block_number >= first_seen THEN block_number - first_seen ELSE 0

\* as IsComplete, with a strict comparison for BlockConfirmations
IsCompleteStrict(strategy, confirmations) ==
    CASE strategy.kind = "Immediate" -> TRUE
      [] strategy.kind = "Finalized" -> TRUE
      [] strategy.kind = "BlockConfirmations" ->
            confirmations > strategy.confirmations

\* as IsComplete, with a Finalized watch awaiting one more block
IsCompleteFinalizedLater(strategy, confirmations) ==
    CASE strategy.kind = "Immediate" -> TRUE
      [] strategy.kind = "Finalized" -> confirmations >= 1
      [] strategy.kind = "BlockConfirmations" ->
            confirmations >= strategy.confirmations

IsComplete(strategy, confirmations) ==
    CASE strategy.kind = "Immediate" -> TRUE
      [] strategy.kind = "Finalized" -> TRUE
      [] strategy.kind = "BlockConfirmations" ->
            confirmations >= strategy.confirmations

\* block.number() is a u32 widened to u64, so confirmations always fits the
\* u32 it is cast to: the cast changes nothing
CompletionStatus(tx_hash, block_tx_hashes, first_seen, confirmations, block_hash) ==
    IF tx_hash \in DOMAIN block_tx_hashes
    THEN IF block_tx_hashes[tx_hash].success
         THEN StatusFinalized(first_seen, block_hash, confirmations)
         ELSE StatusFailed(IF block_tx_hashes[tx_hash].error_msg = None
                           THEN "Unknown error"
                           ELSE block_tx_hashes[tx_hash].error_msg[1])
    ELSE StatusFinalized(first_seen, block_hash, confirmations)

\* the handles after the first-seen pass over pending
Marked(content, block_number) ==
    [h \in DOMAIN pending |->
        MarkFirstSeen(pending[h], h, content, block_number)]

ToComplete(marked, block_number) ==
    {h \in DOMAIN marked :
        /\ marked[h].first_seen # None
        /\ IsComplete(marked[h].strategy,
                      Confirmations(block_number, marked[h].first_seen[1]))}

\* the metrics signal emitted for one completed watch
RecordCompletion(m, status) == [m EXCEPT !.success = @ + 1]

RECURSIVE RecordAll(_, _, _)
RecordAll(m, statusOf, hs) ==
    IF hs = {} THEN m
    ELSE LET h == CHOOSE x \in hs : TRUE
         IN  RecordAll(RecordCompletion(m, statusOf[h]), statusOf, hs \ {h})

\* what the monitor passes to the senders of the handles it removes, with
\* the step that did it: the block processed (0 for a cleanup), the handle
\* removed and whether the block contained its hash
Deliveries(handles, statusOf, by, block_number, inBlock) ==
    [i \in {handles[h].id : h \in DOMAIN statusOf} |->
        LET h == CHOOSE x \in DOMAIN statusOf : handles[x].id = i
        IN  [status |-> statusOf[h], by |-> by, n |-> block_number,
             hash |-> h, handle |-> handles[h], matched |-> h \in inBlock]]

\* a block is finalized while the monitor has no subscription: the stream
\* of the next subscription starts after it
MissedBlock ==
    /\ pc \in {"subscribing", "backoff"}
    /\ lastBlock + 1 \in BlockNumbers
    /\ lastBlock' = lastBlock + 1
    /\ Quiet
    /\ UNCHANGED <<pc, queue, pending, timer, calls, rx, rejected, nsent, feeVars>>

\* select! branch: subscription.next() yields Some(Ok(block)); the stream
\* delivers the finalized blocks in order.  extrinsicsOk is the outcome of
\* block.extrinsics()
ProcessBlock(content, extrinsicsOk) ==
    /\ pc = "subscribed"
    /\ lastBlock + 1 \in BlockNumbers
    /\ lastBlock' = lastBlock + 1
    /\ timer' = 0
    /\ IF ~extrinsicsOk
       THEN \* the error is returned and logged by run_monitor
            /\ content = [h \in Hashes |-> Absent]
            /\ Quiet
            /\ UNCHANGED <<pending, rx, nsent>>
       ELSE LET block_number == lastBlock + 1
                bth == BlockTxHashes(content, block_number)
                marked == Marked(content, block_number)
                complete == ToComplete(marked, block_number)
                statusOf == [h \in complete |->
                    CompletionStatus(h, bth, marked[h].first_seen[1],
                        Confirmations(block_number, marked[h].first_seen[1]),
                        BlockHashOf(block_number))]
                ids == {marked[h].id : h \in complete}
            IN  /\ pending' = Remove(marked, complete)
                /\ signals' = RecordAll(NoSignals, statusOf, complete)
                /\ delivered' = Deliveries(marked, statusOf, "block",
                                            block_number, DOMAIN bth)
                /\ nsent' = [i \in WatchIds |->
                                IF i \in ids THEN nsent[i] + 1 ELSE nsent[i]]
                /\ rx' = SendRx(rx, ids)
    /\ UNCHANGED <<pc, queue, calls, rejected, feeVars>>

\* ------------------------------------------- cleanup_expired_transactions
\* as Expired, with a handle of exactly the maximum age expired too
ExpiredAtLimit(map) == {h \in DOMAIN map : map[h].age >= MAX_WATCH_DURATION}

Expired(map) == {h \in DOMAIN map : map[h].age > MAX_WATCH_DURATION}

\* as TimeoutSecs, with the maximum watch duration reported for Immediate
TimeoutSecsOfLimit(strategy) ==
    CASE strategy.kind = "BlockConfirmations" -> strategy.timeout_secs
      [] strategy.kind = "Finalized" -> strategy.timeout_secs
      [] strategy.kind = "Immediate" -> MAX_WATCH_DURATION

TimeoutSecs(strategy) ==
    CASE strategy.kind = "BlockConfirmations" -> strategy.timeout_secs
      [] strategy.kind = "Finalized" -> strategy.timeout_secs
      [] strategy.kind = "Immediate" -> 0

TimeoutStatus(strategy) ==
    StatusFailed("Timeout after " \o ToString(TimeoutSecs(strategy)) \o " seconds")

\* select! branch: the 30 s sleep created for this iteration has elapsed
Cleanup ==
    /\ pc = "subscribed"
    /\ timer >= CLEANUP_INTERVAL
    /\ timer' = 0
    /\ LET expired == Expired(pending)
           statusOf == [h \in expired |-> TimeoutStatus(pending[h].strategy)]
           ids == {pending[h].id : h \in expired}
       IN  /\ pending' = Remove(pending, expired)
           /\ delivered' = Deliveries(pending, statusOf, "cleanup", 0, {})
           /\ nsent' = [i \in WatchIds |->
                           IF i \in ids THEN nsent[i] + 1 ELSE nsent[i]]
           /\ rx' = SendRx(rx, ids)
    /\ signals' = NoSignals
    /\ UNCHANGED <<pc, queue, lastBlock, calls, rejected, feeVars>>

\* ---------------------------------------------------------- specification
Next ==
    \/ \E h \in AllHashes, s \in Strategies : watch_transaction(h, s)
    \/ \E i \in WatchIds : DropReceiver(i)
    \/ SubscribeOk
    \/ SubscribeFail
    \/ BackoffElapsed
    \/ RecvRegistration
    \/ \E c \in BlockContents, ok \in BOOLEAN : ProcessBlock(c, ok)
    \/ MissedBlock
    \/ StreamError
    \/ StreamEnded
    \/ Cleanup
    \/ \E d \in TimeSteps : Advance(d)
    \/ MonitorTerminates

Spec == Init /\ [][Next]_vars

TypeOK ==
    /\ pc \in {"subscribing", "subscribed", "backoff", "terminated"}
    /\ DOMAIN pending \subseteq AllHashes
    /\ timer \in 0..CLEANUP_INTERVAL
    /\ lastBlock \in 0..MaxBlock
    /\ calls \in 0..Cardinality(WatchIds)

\* -------------------------------------------------------------- fairness
\* The monitor task is scheduled fairly and never stops: it attempts to
\* subscribe, leaves the backoff sleep once it has elapsed, and select! picks
\* every branch that is ready again and again.  Whether a subscription
\* succeeds, and when blocks and stream errors arrive, is up to the chain.
LiveNext ==
    \/ \E h \in AllHashes, s \in Strategies : watch_transaction(h, s)
    \/ \E i \in WatchIds : DropReceiver(i)
    \/ SubscribeOk
    \/ SubscribeFail
    \/ BackoffElapsed
    \/ RecvRegistration
    \/ \E c \in BlockContents, ok \in BOOLEAN : ProcessBlock(c, ok)
    \/ MissedBlock
    \/ StreamError
    \/ StreamEnded
    \/ Cleanup
    \/ \E d \in TimeSteps : Advance(d)

FairSpec ==
    /\ Init
    /\ [][LiveNext]_vars
    /\ WF_vars(SubscribeOk \/ SubscribeFail)
    /\ WF_vars(BackoffElapsed)
    /\ SF_vars(RecvRegistration)
    /\ SF_vars(Cleanup)
    /\ WF_vars(\E d \in TimeSteps : Advance(d))

\* ------------------------------ monitors of Immediate and Finalized{0}
\* the two strategies compared, next to one that waits for confirmations
ZeroTimeoutStrategies ==
    {Immediate, FinalizedStrategy(0)}
    \cup {BlockConfirmations(MaxRequired, t) : t \in TimeoutChoices}

ZeroTimeoutNext ==
    \/ \E h \in AllHashes, s \in ZeroTimeoutStrategies : watch_transaction(h, s)
    \/ \E i \in WatchIds : DropReceiver(i)
    \/ SubscribeOk
    \/ SubscribeFail
    \/ BackoffElapsed
    \/ RecvRegistration
    \/ \E c \in BlockContents, ok \in BOOLEAN : ProcessBlock(c, ok)
    \/ MissedBlock
    \/ StreamError
    \/ StreamEnded
    \/ Cleanup
    \/ \E d \in TimeSteps : Advance(d)
    \/ MonitorTerminates

ZeroTimeoutSpec == Init /\ [][ZeroTimeoutNext]_vars

\* ======================================= DynamicFeeEstimator: operations
\* latest_number.saturating_sub(offset)
SampledBlock(latest_number, offset) ==
    IF latest_number >= offset THEN latest_number - offset ELSE 0

\* the block's fullness, in units of 1 / MAX_BLOCK_EXTRINSICS and clamped to
\* 1.0, and the average of the fees paid in it
\* as analyze_block_congestion, without the clamp of the fullness to 1.0
analyze_block_congestion_unclamped(chain, block_number) ==
    LET b == chain.blocks[block_number]
    IN  IF ~b.readable
        THEN Err("Connection")
        ELSE Ok([fullness |-> b.extrinsics,
                 avg_fee |-> IF Len(b.fees) > 0
                             THEN SeqSum(b.fees) \div Len(b.fees)
                             ELSE DEFAULT_AVG_FEE])

analyze_block_congestion(chain, block_number) ==
    LET b == chain.blocks[block_number]
    IN  IF ~b.readable
        THEN Err("Connection")
        ELSE Ok([fullness |-> Min(b.extrinsics, MAX_BLOCK_EXTRINSICS),
                 avg_fee |-> IF Len(b.fees) > 0
                             THEN SeqSum(b.fees) \div Len(b.fees)
                             ELSE DEFAULT_AVG_FEE])

NoSamples == [total_fullness |-> 0, total_fees |-> 0, blocks_analyzed |-> 0]

\* as AnalyzeFrom, with a block whose analysis fails counted in
\* blocks_analyzed
RECURSIVE AnalyzeFromCountingErrors(_, _, _)
AnalyzeFromCountingErrors(chain, offset, acc) ==
    IF offset >= BLOCKS_TO_ANALYZE
    THEN acc
    ELSE LET r == analyze_block_congestion(
                      chain, SampledBlock(chain.latest_number, offset))
         IN  AnalyzeFromCountingErrors(chain, offset + 1,
                 IF r.ok
                 THEN [total_fullness |-> acc.total_fullness + r.value.fullness,
                       total_fees |-> acc.total_fees + r.value.avg_fee,
                       blocks_analyzed |-> acc.blocks_analyzed + 1]
                 ELSE [acc EXCEPT !.blocks_analyzed = @ + 1])

\* the loop over offset in 0..blocks_to_analyze
RECURSIVE AnalyzeFrom(_, _, _)
AnalyzeFrom(chain, offset, acc) ==
    IF offset >= BLOCKS_TO_ANALYZE
    THEN acc
    ELSE LET r == analyze_block_congestion(
                      chain, SampledBlock(chain.latest_number, offset))
         IN  AnalyzeFrom(chain, offset + 1,
                 IF r.ok
                 THEN [total_fullness |-> acc.total_fullness + r.value.fullness,
                       total_fees |-> acc.total_fees + r.value.avg_fee,
                       blocks_analyzed |-> acc.blocks_analyzed + 1]
                 ELSE acc)

\* the sums the loop ends with, for every answer of the chain client
Sampled == [chain \in ChainViews |-> AnalyzeFrom(chain, 0, NoSamples)]

\* as update_congestion, with last_updated set to now when no block was
\* analyzed
update_congestion_touching(c, chain) ==
    IF ~chain.at_latest
    THEN [result |-> Err("Connection"), congestion |-> c]
    ELSE LET acc == Sampled[chain]
         IN  [result |-> Ok("unit"),
              congestion |->
                  IF acc.blocks_analyzed > 0
                  THEN NetworkCongestion_new(
                           Ratio(acc.total_fullness,
                                 MAX_BLOCK_EXTRINSICS * acc.blocks_analyzed),
                           acc.total_fees \div acc.blocks_analyzed,
                           acc.blocks_analyzed)
                  ELSE [c EXCEPT !.age = 0]]

\* the Result returned and the snapshot left in self.congestion
update_congestion(c, chain) ==
    IF ~chain.at_latest
    THEN [result |-> Err("Connection"), congestion |-> c]
    ELSE LET acc == Sampled[chain]
         IN  [result |-> Ok("unit"),
              congestion |->
                  IF acc.blocks_analyzed > 0
                  THEN NetworkCongestion_new(
                           Ratio(acc.total_fullness,
                                 MAX_BLOCK_EXTRINSICS * acc.blocks_analyzed),
                           acc.total_fees \div acc.blocks_analyzed,
                           acc.blocks_analyzed)
                  ELSE c]

\* as ShouldUpdate, with a snapshot of exactly the interval's age kept
ShouldUpdateBeyond(c) == c.age < 0 \/ c.age > CONGESTION_UPDATE_INTERVAL

\* last_updated.elapsed(): Err when the clock is behind last_updated
ShouldUpdate(c) == c.age < 0 \/ c.age >= CONGESTION_UPDATE_INTERVAL

update_congestion_if_needed(c, chain) ==
    IF ShouldUpdate(c)
    THEN update_congestion(c, chain)
    ELSE [result |-> Ok("unit"), congestion |-> c]

\* as calculate_fallback_fee, with the lengths 100 and 200 in the buckets
\* above them
calculate_fallback_fee_inclusive(len) ==
    100000 + len * 1000
    + (IF len >= 200 THEN 500000 ELSE IF len >= 100 THEN 200000 ELSE 100000)

calculate_fallback_fee(len) ==
    100000 + len * 1000
    + (IF len > 200 THEN 500000 ELSE IF len > 100 THEN 200000 ELSE 100000)

\* the part of estimate_fee after the snapshot has been read; the product of
\* the two multipliers is in hundredths, and `as u128` truncates
Estimate(len, strategy, cong, query) ==
    LET base_fee == IF query.ok THEN query.value.partial_fee
                    ELSE calculate_fallback_fee(len)
        weight_opt == IF query.ok
                      THEN Some([ref_time |-> query.value.ref_time,
                                 proof_size |-> query.value.proof_size])
                      ELSE None
        length_fee == len * 1000
        weight_fee == IF query.ok THEN query.value.ref_time \div 1000000 ELSE 0
        combined_multiplier ==
            FeeStrategy_multiplier(strategy) * NetworkCongestion_multiplier(cong)
        adjusted_base == (base_fee * combined_multiplier) \div 100
    IN  FeeEstimate_new(adjusted_base, length_fee, weight_fee,
                        FeeStrategy_tip(strategy), strategy, cong, weight_opt)

\* estimate_fee(extrinsic_bytes, strategy) with extrinsic_bytes.len() = len,
\* against a chain client that answers the refresh with chain and the runtime
\* fee query with query.  The calls are made one after the other: the caller
\* has taken the result of the previous one
estimate_fee(len, strategy, chain, query) ==
    LET refresh == update_congestion_if_needed(congestion, chain)
    IN  /\ estimate = None
        /\ congestion' = refresh.congestion
        /\ estimate' = Some(IF refresh.result.ok
                            THEN Ok(Estimate(len, strategy, refresh.congestion,
                                             query))
                            ELSE Err(refresh.result.error))
        /\ call' = Some([len |-> len, strategy |-> strategy, query |-> query])
        /\ observed' = None
        /\ UNCHANGED <<monVars, tasks, accVars>>

\* get_congestion(): a clone of the snapshot
get_congestion ==
    /\ observed' = Some([op |-> "get_congestion", value |-> congestion])
    /\ call' = None
    /\ estimate' = None
    /\ UNCHANGED <<monVars, tasks, accVars, congestion>>

\* no call is in progress, and the results of the last one are forgotten
Idle == call' = None /\ estimate' = None /\ observed' = None

\* the caller takes the result of its call
TakeResult ==
    /\ estimate # None
    /\ Idle
    /\ UNCHANGED <<monVars, tasks, accVars, congestion>>

\* time passes
FeeAdvance ==
    /\ congestion' = [congestion EXCEPT
                         !.age = Min(@ + FeeTimeStep, FeeAgeCap)]
    /\ Idle
    /\ UNCHANGED <<monVars, tasks, accVars>>

\* the system clock is set back behind last_updated
ClockSetBack ==
    /\ congestion.age >= 0
    /\ congestion' = [congestion EXCEPT !.age = 0 - FeeTimeStep]
    /\ Idle
    /\ UNCHANGED <<monVars, tasks, accVars>>

\* the answers the chain client may give to a call: when no refresh is due
\* it is not asked for blocks, and one answer stands for all
ViewsAsked(c) == IF ShouldUpdate(c) THEN ChainViews ELSE {Unreachable}

FeeNext ==
    \/ \E len \in ExtrinsicLengths, strategy \in FeeStrategies,
          chain \in ViewsAsked(congestion), query \in QueryResults :
            estimate_fee(len, strategy, chain, query)
    \/ TakeResult
    \/ get_congestion
    \/ FeeAdvance
    \/ ClockSetBack

FeeSpec == Init /\ [][FeeNext]_vars

\* ------------------------------------------------- the accuracy window

\* Fees are counted in units of 2^120 Planck, so that a u128 is a number of
\* AmountBits bits and an i128 its two's complement reading.
AmountBits == 8
I128_MIN == 0 - 2^(AmountBits - 1)
I128_MAX == 2^(AmountBits - 1) - 1

\* x as i128, for a u128 x
AsI128(x) == IF x > I128_MAX THEN x - 2^AmountBits ELSE x

\* the i128 that an i128 operation with the exact result v wraps to
WrapI128(v) == ((v - I128_MIN) % 2^AmountBits) + I128_MIN

\* the outcome of an i128 operation with the exact result v: a panic where
\* the build checks for overflow, the wrapped value where it does not
CheckedI128(v, checks) ==
    IF v < I128_MIN \/ v > I128_MAX
    THEN IF checks THEN [panic |-> TRUE, value |-> 0]
         ELSE [panic |-> FALSE, value |-> WrapI128(v)]
    ELSE [panic |-> FALSE, value |-> v]

Magnitude(v) == IF v < 0 THEN 0 - v ELSE v

\* a signed f64: percentage_error and the averages
SignedF64(neg, abs) == [neg |-> neg /\ abs # F64Zero, abs |-> abs]

\* FeeAccuracyMetric::new(estimated, actual), called at the time now
FeeAccuracyMetric_new(estimated, actual, now, checks) ==
    LET diff == CheckedI128(AsI128(estimated) - AsI128(actual), checks)
        absolute_error == diff.value
        percentage_error ==
            IF actual > 0
            THEN SignedF64(absolute_error < 0,
                           F64Times(F64Ratio(Magnitude(absolute_error),
                                             actual), 100))
            ELSE SignedF64(FALSE, F64Zero)
    IN  [panic |-> diff.panic,
         value |-> [estimated |-> estimated,
                    actual |-> actual,
                    absolute_error |-> absolute_error,
                    percentage_error |-> percentage_error,
                    timestamp |-> now]]

\* as Evict, with pop_back in the place of pop_front
RECURSIVE EvictNewest(_, _)
EvictNewest(metrics, max) ==
    IF Len(metrics) > max
    THEN EvictNewest(SubSeq(metrics, 1, Len(metrics) - 1), max)
    ELSE metrics

\* while metrics.len() > self.max_metrics { metrics.pop_front(); }
RECURSIVE Evict(_, _)
Evict(metrics, max) ==
    IF Len(metrics) > max THEN Evict(Tail(metrics), max) ELSE metrics

\* the fees recorded: estimated and actual
FeePairs == {<<1, 9>>, <<3, 1>>, <<1, 0>>, <<2^(AmountBits - 1), 0>>,
             <<2^(AmountBits - 1), 1>>}
\* the calls of record_actual_fee followed
MaxRecords == MaxMetrics + 2

\* record_actual_fee(estimated, actual); a panic in FeeAccuracyMetric::new
\* unwinds before the window is locked
record_actual_fee(estimated, actual) ==
    LET made == FeeAccuracyMetric_new(estimated, actual, recorded + 1,
                                      overflow_checks)
    IN  /\ recorded < MaxRecords
        /\ IF made.panic
           THEN /\ UNCHANGED <<accuracy_metrics, recorded>>
                /\ observed' = Some([op |-> "record_actual_fee",
                                     value |-> "panic"])
           ELSE /\ accuracy_metrics' =
                       Evict(Append(accuracy_metrics, made.value), max_metrics)
                /\ recorded' = recorded + 1
                /\ observed' = Some([op |-> "record_actual_fee",
                                     value |-> "unit"])
        /\ call' = None
        /\ estimate' = None
        /\ UNCHANGED <<monVars, tasks, congestion, max_metrics, overflow_checks>>

\* the loop of get_accuracy_stats over the entries from index i on
RECURSIVE AccumulateStats(_, _, _, _)
AccumulateStats(metrics, i, acc, checks) ==
    IF i > Len(metrics) THEN acc
    ELSE LET metric == metrics[i]
             abs == CheckedI128(Magnitude(metric.absolute_error), checks)
             pct == metric.percentage_error.abs
         IN  IF abs.panic THEN [acc EXCEPT !.panic = TRUE]
             ELSE AccumulateStats(metrics, i + 1,
                      [panic |-> FALSE,
                       total_abs_error |-> acc.total_abs_error + abs.value,
                       total_pct_error |-> F64Plus(acc.total_pct_error, pct),
                       max_pct_error |->
                           IF i = 1 THEN pct ELSE F64Max(acc.max_pct_error, pct),
                       min_pct_error |->
                           IF i = 1 THEN pct ELSE F64Min(acc.min_pct_error, pct)],
                      checks)

\* what get_accuracy_stats() yields for a window: a panic, None, or the
\* statistics (the sum of the absolute errors is exact in f64 for the fees
\* of the model)
AccuracyStats(metrics, checks) ==
    IF metrics = <<>> THEN [panic |-> FALSE, value |-> None]
    ELSE LET acc == AccumulateStats(metrics, 1,
                        [panic |-> FALSE, total_abs_error |-> 0,
                         total_pct_error |-> F64Zero,
                         max_pct_error |-> F64Zero,
                         min_pct_error |-> F64Zero], checks)
             count == Len(metrics)
         IN  IF acc.panic THEN [panic |-> TRUE, value |-> None]
             ELSE [panic |-> FALSE,
                   value |-> Some(
                     [sample_count |-> count,
                      avg_absolute_error |->
                          SignedF64(acc.total_abs_error < 0,
                                    F64Ratio(Magnitude(acc.total_abs_error),
                                             count)),
                      avg_percentage_error |->
                          F64Over(acc.total_pct_error, count),
                      max_percentage_error |-> acc.max_pct_error,
                      min_percentage_error |-> acc.min_pct_error])]

\* as get_accuracy_stats, taking the entries out of the window
get_accuracy_stats_draining ==
    /\ observed' = Some([op |-> "get_accuracy_stats",
                         value |-> AccuracyStats(accuracy_metrics,
                                                 overflow_checks)])
    /\ accuracy_metrics' = <<>>
    /\ call' = None
    /\ estimate' = None
    /\ UNCHANGED <<monVars, tasks, max_metrics, recorded, overflow_checks,
                   congestion>>

get_accuracy_stats ==
    /\ observed' = Some([op |-> "get_accuracy_stats",
                         value |-> AccuracyStats(accuracy_metrics,
                                                 overflow_checks)])
    /\ call' = None
    /\ estimate' = None
    /\ UNCHANGED <<monVars, tasks, accVars, congestion>>

\* update_congestion(), called by the user of the estimator
UpdateCongestion(chain) ==
    LET refresh == update_congestion(congestion, chain)
    IN  /\ congestion' = refresh.congestion
        /\ observed' = Some([op |-> "update_congestion",
                             value |-> refresh.result])
        /\ call' = None
        /\ estimate' = None
        /\ UNCHANGED <<monVars, tasks, accVars>>

\* the answers of a chain client whose latest block is the genesis block
GenesisViews == {chain \in ChainViews : chain.latest_number = 0}

\* an estimator made by with_config, in a debug or a release build
AccuracyInit ==
    \E max \in 0..MaxMetrics, checks \in BOOLEAN : Constructed(max, checks)

AccuracyNext ==
    \/ \E pair \in FeePairs : record_actual_fee(pair[1], pair[2])
    \/ get_accuracy_stats
    \/ get_congestion
    \/ \E chain \in GenesisViews : UpdateCongestion(chain)

AccuracySpec == AccuracyInit /\ [][AccuracyNext]_vars


\* ============================ DynamicFeeEstimator: concurrent callers
\* Each caller runs estimate_fee or get_congestion; a step is what a call
\* does between two awaits on the RwLock of self.congestion.  A task is at
\*   "idle"      in no call
\*   "sampling"  update_congestion: it has seen a stale snapshot
\*   "storing"   update_congestion: it holds the snapshot it has built
\*   "reading"   estimate_fee, after update_congestion_if_needed
\*   "done"      its call has returned value
\* local is the snapshot built by update_congestion, value what the call
\* returns: for estimate_fee, the snapshot the estimate is made from.

\* update_congestion_if_needed: last_updated is read under the read lock
CheckShouldUpdate(t) ==
    /\ tasks[t].pc = "idle"
    /\ tasks' = [tasks EXCEPT ![t].pc = IF ShouldUpdate(congestion)
                                        THEN "sampling" ELSE "reading"]
    /\ UNCHANGED <<monVars, accVars, congestion, call, estimate, observed>>

\* update_congestion up to the write lock: the blocks are fetched and
\* analyzed, which touches nothing but the locals of the call
SampleBlocks(t, chain) ==
    /\ tasks[t].pc = "sampling"
    /\ tasks' = [tasks EXCEPT ![t] =
          IF ~chain.at_latest
          THEN [pc |-> "done", local |-> None, value |-> Some(Err("Connection"))]
          ELSE LET acc == Sampled[chain]
               IN  IF acc.blocks_analyzed > 0
                   THEN [pc |-> "storing",
                         local |-> Some(NetworkCongestion_new(
                             Ratio(acc.total_fullness,
                                   MAX_BLOCK_EXTRINSICS * acc.blocks_analyzed),
                             acc.total_fees \div acc.blocks_analyzed,
                             acc.blocks_analyzed)),
                         value |-> None]
                   ELSE [pc |-> "reading", local |-> None, value |-> None]]
    /\ UNCHANGED <<monVars, accVars, congestion, call, estimate, observed>>

\* as StoreSnapshot, with the level of the snapshot left as it was
StoreSnapshotWithoutLevel(t) ==
    /\ tasks[t].pc = "storing"
    /\ congestion' = [tasks[t].local[1] EXCEPT !.level = congestion.level]
    /\ tasks' = [tasks EXCEPT ![t] = [pc |-> "reading", local |-> None,
                                      value |-> None]]
    /\ UNCHANGED <<monVars, accVars, call, estimate, observed>>

\* *self.congestion.write().await = congestion
StoreSnapshot(t) ==
    /\ tasks[t].pc = "storing"
    /\ congestion' = tasks[t].local[1]
    /\ tasks' = [tasks EXCEPT ![t] = [pc |-> "reading", local |-> None,
                                      value |-> None]]
    /\ UNCHANGED <<monVars, accVars, call, estimate, observed>>

\* estimate_fee: self.congestion.read().await.clone()
ReadSnapshot(t) ==
    /\ tasks[t].pc = "reading"
    /\ tasks' = [tasks EXCEPT ![t] = [pc |-> "done", local |-> None,
                                      value |-> Some(Ok(congestion))]]
    /\ UNCHANGED <<monVars, accVars, congestion, call, estimate, observed>>

\* get_congestion(), called by a task
GetCongestion(t) ==
    /\ tasks[t].pc = "idle"
    /\ tasks' = [tasks EXCEPT ![t] = [pc |-> "done", local |-> None,
                                      value |-> Some(Ok(congestion))]]
    /\ UNCHANGED <<monVars, accVars, congestion, call, estimate, observed>>

\* the caller has what its call returned
Return(t) ==
    /\ tasks[t].pc = "done"
    /\ tasks' = [tasks EXCEPT ![t] = IdleTask]
    /\ UNCHANGED <<monVars, accVars, congestion, call, estimate, observed>>

\* a snapshot, FeeTimeStep seconds later
Older(c) == [c EXCEPT !.age = Min(@ + FeeTimeStep, FeeAgeCap)]

\* time passes, for the cached snapshot and for those the tasks hold
RefreshAdvance ==
    /\ congestion' = Older(congestion)
    /\ tasks' = [t \in Callers |->
          [tasks[t] EXCEPT
              !.local = IF @ = None THEN None ELSE Some(Older(@[1])),
              !.value = IF @ # None /\ @[1].ok
                        THEN Some(Ok(Older(@[1].value))) ELSE @]]
    /\ UNCHANGED <<monVars, accVars, call, estimate, observed>>

RefreshNext ==
    \/ \E t \in Callers : CheckShouldUpdate(t)
    \/ \E t \in Callers, chain \in GenesisViews : SampleBlocks(t, chain)
    \/ \E t \in Callers : StoreSnapshot(t)
    \/ \E t \in Callers : ReadSnapshot(t)
    \/ \E t \in Callers : GetCongestion(t)
    \/ \E t \in Callers : Return(t)
    \/ RefreshAdvance

RefreshSpec == Init /\ [][RefreshNext]_vars

\* ================================================================ claims

\* C1: every watch registered through watch_transaction is eventually
\* resolved: once the call has returned a waiting receiver, the monitor
\* eventually passes a TransactionStatus to the sender of that watch.
C1_EveryWatchResolved ==
    \A i \in WatchIds : (rx[i] # "NotCreated") ~> (nsent[i] > 0)

\* the outcome the chain reports for an extrinsic
Succeeded(ext) ==
    ext.decoded /\ "ExtrinsicSuccess" \in ext.events
                /\ "ExtrinsicFailed" \notin ext.events
ChainFailed(ext) ==
    ext.decoded /\ "ExtrinsicFailed" \in ext.events
                /\ "ExtrinsicSuccess" \notin ext.events

PendingIds == {pending[h].id : h \in DOMAIN pending}

\* C2: the status a block-processing step delivers reflects the outcome of
\* the matched extrinsic, for every strategy: Finalized if it succeeded in
\* the block where the transaction was first seen, Failed if it failed
\* there, also when the watch completes in a later block (one that does not
\* contain the transaction a second time).
C2_StatusReflectsOutcome ==
    \A i \in DOMAIN delivered :
        (/\ delivered[i].by = "block"
         /\ (delivered[i].matched => delivered[i].handle.first_seen[1] = delivered[i].n))
        =>
            /\ Succeeded(delivered[i].handle.seen)
                  => delivered[i].status.kind = "Finalized"
            /\ ChainFailed(delivered[i].handle.seen)
                  => delivered[i].status.kind = "Failed"

\* C3: no watch is sent more than one status; a status is sent for a watch
\* only in a step that removes its handle from the pending set, and a watch
\* whose handle was removed never is pending again.
C3_AtMostOneStatus ==
    /\ [](\A i \in WatchIds : nsent[i] <= 1)
    /\ [][\A i \in WatchIds :
            /\ nsent'[i] # nsent[i] =>
                  /\ nsent'[i] = nsent[i] + 1
                  /\ i \in PendingIds
                  /\ i \notin PendingIds'
                  /\ i \in DOMAIN delivered'
            /\ i \in DOMAIN delivered' => nsent'[i] = nsent[i] + 1
            /\ (nsent[i] > 0 => i \notin PendingIds')]_vars

\* a watch was sent its status in an earlier step, and a later step completes
\* another watch without touching the first one
C3_Witness ==
    \E i \in WatchIds, j \in DOMAIN delivered :
        /\ i # j
        /\ nsent[i] = 1
        /\ rx[i] = "Received"
        /\ nsent[j] = 1

\* the watch of the handle stored under h is completed by this step
CompletedByBlock(h) ==
    /\ h \notin DOMAIN pending'
    /\ pending[h].id \in DOMAIN delivered'
    /\ delivered'[pending[h].id].by = "block"

\* the block in which the transaction under h was first seen, once the block
\* with the extrinsics c is processed
FirstSeenWith(h, c) ==
    IF pending[h].first_seen # None THEN pending[h].first_seen
    ELSE IF h \in Hashes /\ c[h].present THEN Some(lastBlock') ELSE None

\* C4: a BlockConfirmations{required} watch first seen in block F completes
\* exactly in the step that processes the first block N with N - F >=
\* required, never while N - F < required, and a Finalized status it is sent
\* carries confirmations = N - F >= required.
C4_BlockConfirmations ==
    [][\A c \in BlockContents : ProcessBlock(c, TRUE) =>
        \A h \in DOMAIN pending :
            pending[h].strategy.kind = "BlockConfirmations" =>
                LET F == FirstSeenWith(h, c)
                    N == lastBlock'
                    required == pending[h].strategy.confirmations
                IN  /\ CompletedByBlock(h) <=> (F # None /\ N - F[1] >= required)
                    /\ ~CompletedByBlock(h) =>
                          /\ h \in DOMAIN pending'
                          /\ pending'[h].first_seen = F
                          /\ F # None => N - F[1] < required
                    /\ (/\ CompletedByBlock(h)
                        /\ delivered'[pending[h].id].status.kind = "Finalized")
                       => /\ delivered'[pending[h].id].status.confirmations = N - F[1]
                          /\ delivered'[pending[h].id].status.confirmations >= required]_vars

\* a watch that asked for at least one confirmation completes in a block
\* after the one it was first seen in
C4_Witness ==
    \E i \in DOMAIN delivered :
        /\ delivered[i].by = "block"
        /\ delivered[i].handle.strategy.kind = "BlockConfirmations"
        /\ delivered[i].handle.strategy.confirmations > 0
        /\ delivered[i].status.kind = "Finalized"
        /\ delivered[i].n > delivered[i].handle.first_seen[1]
        /\ delivered[i].status.confirmations
              = delivered[i].handle.strategy.confirmations

\* C5: a watch with strategy Immediate, Finalized or BlockConfirmations{0}
\* completes in the very step in which its hash is first matched; when the
\* matched extrinsic succeeded the status is Finalized with the number and
\* the hash of that block and confirmations = 0.
C5_ImmediateCompletion ==
    [][\A c \in BlockContents : ProcessBlock(c, TRUE) =>
        \A h \in DOMAIN pending \cap Hashes :
            (/\ c[h].present
             /\ pending[h].first_seen = None
             /\ \/ pending[h].strategy.kind \in {"Immediate", "Finalized"}
                \/ /\ pending[h].strategy.kind = "BlockConfirmations"
                   /\ pending[h].strategy.confirmations = 0)
            => /\ CompletedByBlock(h)
               /\ (c[h].decoded /\ "ExtrinsicSuccess" \in c[h].events)
                  => delivered'[pending[h].id].status
                        = StatusFinalized(lastBlock', BlockHashOf(lastBlock'), 0)]_vars

\* a watch completes with Finalized and no confirmations in the block that
\* contains its transaction
C5_Witness ==
    \E i \in DOMAIN delivered :
        /\ delivered[i].by = "block"
        /\ delivered[i].handle.strategy.kind \in {"Immediate", "Finalized"}
        /\ delivered[i].status.kind = "Finalized"
        /\ delivered[i].status.block_number = lastBlock
        /\ delivered[i].status.confirmations = 0

\* the N of the timeout reason: the timeout_secs of the strategy
StrategyTimeout(strategy) ==
    IF strategy.kind = "Immediate" THEN 0 ELSE strategy.timeout_secs

\* what a cleanup tick does to every pending watch, given the text that
\* precedes N in the reason
CleanupTick(prefix) ==
    Cleanup =>
        \A h \in DOMAIN pending :
            IF pending[h].age > MAX_WATCH_DURATION
            THEN /\ h \notin DOMAIN pending'
                 /\ pending[h].id \in DOMAIN delivered'
                 /\ delivered'[pending[h].id].status =
                       StatusFailed(prefix
                           \o ToString(StrategyTimeout(pending[h].strategy))
                           \o " seconds")
            ELSE /\ h \in DOMAIN pending'
                 /\ pending'[h] = pending[h]
                 /\ pending[h].id \notin DOMAIN delivered'

QueuedIds == {queue[k].id : k \in 1..Len(queue)}

\* C8 as claimed: a receiver returned by watch_transaction after the monitor
\* task has terminated never resolves: it waits until the caller gives up.
C8_NeverResolvesAsClaimed ==
    \A i \in rejected : rx[i] \in {"Waiting", "Dropped"}

\* C8 as amended: watch_transaction called after the monitor task has
\* terminated returns a receiver without error, registers nothing, and the
\* receiver is closed at once (its sender was dropped with the rejected
\* message); no TransactionStatus is ever sent for it.
C8_ClosedAtOnce ==
    \A i \in rejected :
        /\ pc = "terminated"
        /\ rx[i] = "Closed"
        /\ nsent[i] = 0
        /\ i \notin QueuedIds \cup PendingIds

\* a call made after the monitor task has terminated
C8_Witness ==
    \E i \in rejected : pc = "terminated" /\ rx[i] = "Closed"

\* C9 as claimed: watch_transaction called with a malformed hash returns an
\* error and adds nothing to the registration queue or to the pending set.
C9_RejectsMalformedAsClaimed ==
    [][\A h \in BadHashes, s \in Strategies : watch_transaction(h, s) =>
          /\ queue' = queue
          /\ pending' = pending
          /\ rx'[calls'] # "Waiting"]_vars

\* C9 as amended: watch_transaction does not validate the hash: a malformed
\* hash is queued like any other one and returns a waiting receiver, the
\* monitor adds it to the pending set, and, as no extrinsic has such a hash,
\* the only status it is ever sent is the timeout of the cleanup.
C9_NoValidation ==
    /\ [][\A h \in BadHashes, s \in Strategies :
            (watch_transaction(h, s) /\ pc # "terminated") =>
                /\ queue' = Append(queue, [id |-> calls', hash |-> h,
                                           strategy |-> s])
                /\ rx'[calls'] = "Waiting"]_vars
    /\ [][(RecvRegistration /\ Head(queue).hash \in BadHashes) =>
            /\ Head(queue).hash \in DOMAIN pending'
            /\ pending'[Head(queue).hash].id = Head(queue).id]_vars
    /\ [](\A i \in DOMAIN delivered :
            delivered[i].hash \in BadHashes =>
                /\ delivered[i].by = "cleanup"
                /\ delivered[i].status.kind = "Failed")

\* a watch on a malformed hash was pending and is resolved by the cleanup
C9_Witness ==
    \E i \in DOMAIN delivered :
        /\ delivered[i].hash \in BadHashes
        /\ delivered[i].by = "cleanup"

ImmediateKind(strategy) ==
    \/ strategy.kind \in {"Immediate", "Finalized"}
    \/ strategy.kind = "BlockConfirmations" /\ strategy.confirmations = 0

\* C10: dropping the receiver changes nothing for the monitor: the drop
\* itself leaves the monitor state alone, the watch stays pending until a
\* block completes it or the cleanup expires it, both of which happen as for
\* a live receiver, the failed send is ignored (the monitor goes on, the
\* receiver gets nothing) and the other watches receive their statuses.
C10_DroppedReceiver ==
    [][\A i \in WatchIds :
        /\ (rx[i] = "Waiting" /\ rx'[i] = "Dropped")
              => UNCHANGED <<pc, queue, pending, timer, lastBlock, nsent>>
        /\ rx[i] = "Dropped" =>
            /\ rx'[i] = "Dropped"
            /\ i \in DOMAIN delivered' => pc' = pc
            /\ \A j \in DOMAIN delivered' :
                  rx[j] = "Waiting" => rx'[j] = "Received"
            /\ \A h \in DOMAIN pending : pending[h].id = i =>
                /\ (Cleanup /\ pending[h].age > MAX_WATCH_DURATION)
                      => (h \notin DOMAIN pending' /\ i \in DOMAIN delivered')
                /\ \A c \in BlockContents :
                      (/\ ProcessBlock(c, TRUE)
                       /\ h \in Hashes
                       /\ c[h].present
                       /\ ImmediateKind(pending[h].strategy))
                      => CompletedByBlock(h)
                /\ i \notin PendingIds' =>
                      \/ i \in DOMAIN delivered'
                      \/ RecvRegistration
                      \/ pc' = "terminated"]_vars

\* a block completes a watch whose receiver was dropped while another watch
\* is still pending
C10_Witness ==
    \E i \in DOMAIN delivered, h \in DOMAIN pending :
        /\ rx[i] = "Dropped"
        /\ delivered[i].by = "block"
        /\ nsent[i] = 1
        /\ rx[pending[h].id] = "Waiting"

\* C7: estimate_fee returns Ok with an estimate for every input, whatever the
\* chain client does: neither a failed runtime fee query nor a failure while
\* a stale congestion snapshot is refreshed reaches the caller as an error.
C7_AlwaysOk == estimate # None => estimate[1].ok

\* the strategy a watch has in the other of the two monitors compared
Twin(strategy) ==
    IF strategy = Immediate THEN FinalizedStrategy(0)
    ELSE IF strategy = FinalizedStrategy(0) THEN Immediate
    ELSE strategy

\* C11: Immediate and Finalized{timeout_secs: 0} are observationally
\* equivalent.  In every step of the monitor, a watch registered with one of
\* the two is treated as the monitor would treat it with the other: a block
\* that completes it completes it for the other strategy too (the status
\* sent does not depend on the strategy), a block that leaves it pending
\* leaves it pending for the other, a cleanup tick expires it for both or
\* for neither, and the timeout status sent is the one of the other
\* strategy, "Timeout after 0 seconds".
C11_ZeroTimeoutEquivalent ==
    [][/\ \A i \in DOMAIN delivered' :
            LET del == delivered'[i]
            IN  /\ del.by = "block" =>
                       IsComplete(Twin(del.handle.strategy),
                           Confirmations(del.n, del.handle.first_seen[1]))
                /\ del.by = "cleanup" =>
                       /\ del.status = TimeoutStatus(Twin(del.handle.strategy))
                       /\ del.hash \in Expired(
                              [pending EXCEPT ![del.hash].strategy = Twin(@)])
       /\ \A h \in DOMAIN pending' :
            /\ ((\E c \in BlockContents : ProcessBlock(c, TRUE))
                /\ pending'[h].first_seen # None) =>
                   ~IsComplete(Twin(pending'[h].strategy),
                        Confirmations(lastBlock', pending'[h].first_seen[1]))
            /\ (Cleanup /\ h \in DOMAIN pending) =>
                   h \notin Expired(
                       [pending EXCEPT ![h].strategy = Twin(@)])]_vars

\* a cleanup tick resolves a watch registered with Finalized{0} with
\* "Timeout after 0 seconds", the status of an expired Immediate watch
C11_Witness ==
    \E i \in DOMAIN delivered :
        /\ delivered[i].by = "cleanup"
        /\ delivered[i].handle.strategy = FinalizedStrategy(0)
        /\ delivered[i].status = TimeoutStatus(Immediate)

\* the base fee of the last estimate_fee call before the multipliers are
\* applied: the partial fee the runtime reported, or the fallback fee
UnadjustedBase ==
    IF call[1].query.ok THEN call[1].query.value.partial_fee
    ELSE calculate_fallback_fee(call[1].len)

\* estimate_fee has returned an estimate
Estimated == estimate # None /\ estimate[1].ok

\* n / d rounded to the nearest integer, for n >= 0 and d > 0
RoundDiv(n, d) == (2 * n + d) \div (2 * d)

\* C12: estimate_fee returns total_fee = round(base_fee x strategy
\* multiplier x congestion multiplier) + length_fee + weight_fee + tip, the
\* adjusted base being rounded to the nearest integer.
C12_TotalRounded ==
    Estimated =>
        LET e == estimate[1].value
        IN  e.total_fee =
                RoundDiv(UnadjustedBase * FeeStrategy_multiplier(e.strategy)
                             * NetworkCongestion_multiplier(e.congestion), 100)
                + e.length_fee + e.weight_fee + FeeStrategy_tip(e.strategy)

\* C13: every FeeEstimate satisfies total_fee = base_fee + length_fee +
\* weight_fee + tip, when built by FeeEstimate::new (the components 100000,
\* 50000, 200000 and 10000 give 360000) and when returned by estimate_fee.
C13_TotalIsSum ==
    /\ FeeEstimate_new(100000, 50000, 200000, 10000, FeeStrategy_default,
                       NetworkCongestion_default, None).total_fee = 360000
    /\ Estimated =>
          LET e == estimate[1].value
          IN  e.total_fee = e.base_fee + e.length_fee + e.weight_fee + e.tip

\* estimate_fee has returned an estimate with four positive components
C13_Witness ==
    /\ Estimated
    /\ estimate[1].value.base_fee > 0
    /\ estimate[1].value.length_fee > 0
    /\ estimate[1].value.weight_fee > 0
    /\ estimate[1].value.tip > 0

\* the bucket of the fallback fee as the claim states it
Bucket(len) == IF len > 200 THEN 500000 ELSE IF len > 100 THEN 200000 ELSE 100000

\* C14: when the runtime fee query fails, in transport or in decoding,
\* estimate_fee starts from the base 100000 + 1000 x len + bucket(len), to
\* which the multipliers are applied, and returns weight = None,
\* weight_fee = 0 and length_fee = 1000 x len.
C14_Fallback ==
    (Estimated /\ ~call[1].query.ok) =>
        LET e == estimate[1].value
            len == call[1].len
        IN  /\ e.base_fee =
                   ((100000 + 1000 * len + Bucket(len))
                    * FeeStrategy_multiplier(e.strategy)
                    * NetworkCongestion_multiplier(e.congestion)) \div 100
            /\ e.weight = None
            /\ e.weight_fee = 0
            /\ e.length_fee = 1000 * len

\* the query failed for an extrinsic of exactly 200 bytes, and the estimate
\* for Slow at low congestion shows the base of the middle bucket
C14_Witness ==
    /\ Estimated
    /\ ~call[1].query.ok
    /\ call[1].len = 200
    /\ estimate[1].value.strategy = "Slow"
    /\ estimate[1].value.congestion.level = "Low"
    /\ estimate[1].value.base_fee = 500000

\* what C15 says of one snapshot
LevelAsClaimed(c) ==
    LET f == c.avg_block_fullness
    IN  /\ c.level = "High" <=> f.num * 10 > 8 * f.den
        /\ c.level = "Medium" <=> (f.num * 10 > 5 * f.den /\ f.num * 10 <= 8 * f.den)
        /\ c.level = "Low" <=> f.num * 10 <= 5 * f.den
        /\ NetworkCongestion_multiplier(c) =
               (CASE c.level = "Low" -> 10
                  [] c.level = "Medium" -> 11
                  [] c.level = "High" -> 13)

\* C15: in every congestion snapshot, cached or returned with an estimate,
\* the level is High iff avg_block_fullness > 0.8, Medium iff it is > 0.5
\* and <= 0.8, Low otherwise, and the multiplier is 1.0, 1.1 or 1.3 for Low,
\* Medium or High.
C15_LevelFromFullness ==
    /\ LevelAsClaimed(congestion)
    /\ Estimated => LevelAsClaimed(estimate[1].value.congestion)
    /\ \A n \in {0, 5, 8, 10} :
          LevelAsClaimed(NetworkCongestion_new(Ratio(n, 10), DEFAULT_AVG_FEE, 1))

\* a refresh has stored a snapshot whose fullness is exactly 0.8, at level
\* Medium
C15_Witness ==
    /\ congestion.blocks_analyzed > 0
    /\ congestion.avg_block_fullness = Ratio(8, 10)
    /\ congestion.level = "Medium"

\* C18: FeeStrategy is an exact lookup table: Fast has multiplier 1.5 and
\* tip 1000000, Normal 1.2 and 100000, Slow 1.0 and 0, and the default
\* strategy is Normal.  Every estimate returned carries the tip of the
\* strategy requested and a base scaled by its multiplier.
C18_StrategyTable ==
    /\ FeeStrategy_default = "Normal"
    /\ Estimated =>
          LET e == estimate[1].value
              tenths == CASE call[1].strategy = "Fast" -> 15
                          [] call[1].strategy = "Normal" -> 12
                          [] call[1].strategy = "Slow" -> 10
              tip == CASE call[1].strategy = "Fast" -> 1000000
                       [] call[1].strategy = "Normal" -> 100000
                       [] call[1].strategy = "Slow" -> 0
          IN  /\ e.tip = tip
              /\ e.base_fee =
                     (UnadjustedBase * tenths
                      * NetworkCongestion_multiplier(e.congestion)) \div 100

\* an estimate for Fast has been returned, with the tip of Fast
C18_Witness ==
    /\ Estimated
    /\ call[1].strategy = "Fast"
    /\ estimate[1].value.tip = 1000000

\* C16: the accuracy window is a bounded FIFO: after n calls of
\* record_actual_fee its length is min(n, max_metrics), and it holds the
\* most recent entries in the order of their insertion, so that
\* max_metrics + k calls leave max_metrics entries with the oldest k evicted.
C16_BoundedFifo ==
    /\ Len(accuracy_metrics) = Min(recorded, max_metrics)
    /\ \A i \in 1..Len(accuracy_metrics) :
           accuracy_metrics[i].timestamp
               = recorded - Len(accuracy_metrics) + i

\* a full window of the largest capacity after two evictions
C16_Witness ==
    /\ max_metrics = MaxMetrics
    /\ recorded = max_metrics + 2
    /\ Len(accuracy_metrics) = max_metrics
    /\ accuracy_metrics[1].timestamp = 3

\* x <= y, for two f64 that are not negative
F64AtMost(x, y) == ~F64Less(y, x)

\* C17: get_accuracy_stats returns None iff the accuracy window is empty;
\* otherwise it returns statistics whose sample_count is the length of the
\* window and for which
\* 0 <= min_percentage_error <= avg_percentage_error <= max_percentage_error.
C17_StatsOfWindow ==
    (/\ observed # None
     /\ observed[1].op = "get_accuracy_stats"
     /\ ~observed[1].value.panic) =>
        LET returned == observed[1].value
        IN  /\ returned.value = None <=> accuracy_metrics = <<>>
            /\ returned.value # None =>
                   LET stats == returned.value[1]
                   IN  /\ stats.sample_count = Len(accuracy_metrics)
                       /\ F64AtMost(F64Zero, stats.min_percentage_error)
                       /\ F64AtMost(stats.min_percentage_error,
                                    stats.avg_percentage_error)
                       /\ F64AtMost(stats.avg_percentage_error,
                                    stats.max_percentage_error)

\* C19: FeeAccuracyMetric::new(estimated, actual) records absolute_error =
\* estimated - actual as a signed value for all u128 inputs, and
\* percentage_error = absolute_error / actual * 100, or 0 when actual is 0.
C19_SignedError ==
    /\ (observed # None /\ observed[1].op = "record_actual_fee")
           => observed[1].value = "unit"
    /\ \A i \in 1..Len(accuracy_metrics) :
           LET metric == accuracy_metrics[i]
               error == metric.estimated - metric.actual
           IN  /\ metric.absolute_error = error
               /\ metric.percentage_error =
                      IF metric.actual = 0 THEN SignedF64(FALSE, F64Zero)
                      ELSE SignedF64(error < 0,
                               F64Times(F64Ratio(Magnitude(error),
                                                 metric.actual), 100))

Getters == {"get_congestion", "get_accuracy_stats"}

\* C20: get_congestion and get_accuracy_stats are read-only: neither changes
\* the congestion snapshot or the accuracy window, and a call that follows a
\* call of the same getter with no write in between returns the same value.
C20_ReadOnlyGetters ==
    [][(observed' # None /\ observed'[1].op \in Getters) =>
          /\ congestion' = congestion
          /\ accuracy_metrics' = accuracy_metrics
          /\ (observed # None /\ observed[1].op = observed'[1].op)
                 => observed' = observed]_vars

\* statistics have been returned for a window with entries, while the
\* snapshot is one that update_congestion has stored
C20_Witness ==
    /\ observed # None
    /\ observed[1].op = "get_accuracy_stats"
    /\ ~observed[1].value.panic
    /\ observed[1].value.value # None
    /\ Len(accuracy_metrics) > 1
    /\ congestion.blocks_analyzed > 0

\* C21: while the monitor is subscribed the cleanup tick is periodic: a
\* sweep runs at least once in every 30 s, and handling a registration or a
\* finalized block does not postpone it.  The time that has run towards the
\* next sweep is lost only by the sweep itself.
C21_TickNotPostponed ==
    [][(pc = "subscribed" /\ pc' = "subscribed" /\ ~Cleanup)
           => timer' >= timer]_vars

\* C22: whenever the finalized-block stream ends or yields an error, the
\* monitor waits the 5 s backoff before its next subscribe attempt, and no
\* stream or subscribe failure makes it leave its loop.
C22_BackoffAfterStreamFailure ==
    [][/\ (StreamError \/ StreamEnded) => pc' = "backoff"
       /\ (StreamError \/ StreamEnded \/ SubscribeFail) => pc' # "terminated"
      ]_vars

\* C23: a reconnect leaves the pending set untouched: from the end or the
\* error of the stream, over failed subscribe attempts, to the successful
\* resubscription no watch is removed and no handle's strategy, submitted_at
\* or first_seen_block changes (a handle only grows older).
C23_ReconnectKeepsPending ==
    [][(/\ pc # "terminated"
        /\ pc' # "terminated"
        /\ pc # "subscribed" \/ pc' # "subscribed") =>
          /\ DOMAIN pending' = DOMAIN pending
          /\ \A h \in DOMAIN pending :
                /\ [pending'[h] EXCEPT !.age = pending[h].age] = pending[h]
                /\ pending'[h].age >= pending[h].age]_vars

\* the monitor sleeps the backoff of a reconnect while a watch whose
\* extrinsic it has seen is pending
C23_Witness ==
    /\ pc = "backoff"
    /\ \E h \in DOMAIN pending : pending[h].first_seen # None

\* a block whose extrinsics cannot be read, or one of whose extrinsics has
\* events that cannot be read
DecodeError(content, extrinsicsOk) ==
    ~extrinsicsOk \/ \E h \in Hashes : content[h] = EventsErr

\* C24: a decode error while reading a finalized block's extrinsics or an
\* extrinsic's events causes that block to be skipped: processing it
\* removes no watch, delivers no status and changes no first_seen_block.
C24_DecodeErrorSkipsBlock ==
    [][\A content \in BlockContents, extrinsicsOk \in BOOLEAN :
          (DecodeError(content, extrinsicsOk)
           /\ ProcessBlock(content, extrinsicsOk)) =>
              /\ pending' = pending
              /\ delivered' = EmptyMap]_vars

\* the watches completed by the processing of a block in the last step,
\* with a status of the given kind
CompletedWith(kind) ==
    {i \in DOMAIN delivered :
        delivered[i].by = "block" /\ delivered[i].status.kind = kind}

\* C25: for every watch completed by block processing exactly one metrics
\* signal is emitted: a success signal if the status delivered is Finalized,
\* a failure signal if it is Failed.
C25_SignalMatchesStatus ==
    /\ signals.success = Cardinality(CompletedWith("Finalized"))
    /\ signals.failure = Cardinality(CompletedWith("Failed"))

\* C26: the outcome of an extrinsic is three-valued: success with a System
\* ExtrinsicSuccess event, failure with a System ExtrinsicFailed event,
\* unresolved otherwise; a watch completed in the block that contains its
\* extrinsic is sent Finalized in the first case and Failed in the second,
\* and is not sent Failed when the extrinsic has neither event.
C26_NeitherEventNotFailed ==
    \A i \in DOMAIN delivered :
        LET d == delivered[i]
            ext == d.handle.seen
        IN  (/\ d.by = "block"
             /\ d.matched
             /\ d.handle.first_seen = Some(d.n)
             /\ ext.decoded) =>
                /\ Succeeded(ext) => d.status.kind = "Finalized"
                /\ ChainFailed(ext) => d.status.kind = "Failed"
                /\ ext.events = {} => d.status.kind # "Failed"

\* C27: first_seen_block of a watch is write-once: it changes only from
\* unset to the number of the block in which the hash is first matched, and
\* no later block (also one that contains a matching hash again) nor any
\* other event changes it: a watch keeps it while it is pending, and is
\* completed with it.
C27_FirstSeenWriteOnce ==
    [][\A h \in DOMAIN pending :
          LET handle == pending[h]
              kept == h \in DOMAIN pending' /\ pending'[h].id = handle.id
          IN  /\ (kept /\ handle.first_seen # None) =>
                    pending'[h].first_seen = handle.first_seen
              /\ (kept /\ handle.first_seen = None
                       /\ pending'[h].first_seen # None) =>
                    /\ pending'[h].first_seen = Some(lastBlock + 1)
                    /\ h \in Hashes
                    /\ \E content \in BlockContents :
                          content[h].present /\ ProcessBlock(content, TRUE)
              /\ (handle.first_seen # None /\ handle.id \in DOMAIN delivered') =>
                    delivered'[handle.id].handle.first_seen = handle.first_seen
      ]_vars

\* a watch first seen in block 1 is completed by block 2, which contains
\* its hash again, with the first_seen_block of block 1
C27_Witness ==
    \E i \in DOMAIN delivered :
        /\ delivered[i].by = "block"
        /\ delivered[i].n = 2
        /\ delivered[i].matched
        /\ delivered[i].handle.first_seen = Some(1)

\* the latest block is found, and no block of the chain can be analyzed
NothingAnalyzable(chain) ==
    /\ chain.at_latest
    /\ \A n \in DOMAIN chain.blocks : ~chain.blocks[n].readable

UnanalyzableViews == {view \in ChainViews : NothingAnalyzable(view)}

\* C28: if update_congestion analyzes zero blocks successfully, the cached
\* snapshot is left completely unchanged (level, averages, blocks_analyzed
\* and last_updated), so it stays stale and the next
\* update_congestion_if_needed attempts a refresh again.
C28_ZeroBlocksKeepSnapshot ==
    [][(call' # None /\ ShouldUpdate(congestion)) =>
        \A chain \in UnanalyzableViews :
            estimate_fee(call'[1].len, call'[1].strategy, chain,
                         call'[1].query) =>
                /\ congestion' = congestion
                /\ ShouldUpdate(congestion')
                /\ estimate'[1].ok]_vars

\* estimate_fee has returned an estimate and left a snapshot that is due
\* for a refresh: the refresh it made found no block to analyze
C28_Witness ==
    /\ Estimated
    /\ ShouldUpdate(congestion)
    /\ congestion.blocks_analyzed > 0

\* the step is a call of estimate_fee, which starts with
\* update_congestion_if_needed, and leaves the snapshot as it was without
\* an error
NoRefresh == congestion' = congestion /\ estimate'[1].ok

\* C29, as claimed: update_congestion_if_needed refreshes only when the age
\* of the cached snapshot strictly exceeds the configured interval; when the
\* age is less than or equal to the interval it is a no-op that makes no
\* ChainClient call and leaves the snapshot unchanged.
C29_NoRefreshUpToInterval ==
    [][(/\ call' # None
        /\ congestion.age >= 0
        /\ congestion.age <= CONGESTION_UPDATE_INTERVAL) => NoRefresh]_vars

\* C29, amended: update_congestion_if_needed refreshes when the age of the
\* cached snapshot is at least the configured interval, or when the clock is
\* behind last_updated; when the age is less than the interval it is a no-op
\* that makes no ChainClient call and leaves the snapshot unchanged.  A
\* refresh shows where the chain client is unreachable: it fails.
C29_RefreshFromInterval ==
    [][call' # None =>
          /\ (congestion.age >= 0
              /\ congestion.age < CONGESTION_UPDATE_INTERVAL) => NoRefresh
          /\ ((congestion.age < 0
               \/ congestion.age >= CONGESTION_UPDATE_INTERVAL)
              /\ estimate_fee(call'[1].len, call'[1].strategy, Unreachable,
                              call'[1].query)) => ~estimate'[1].ok]_vars

\* estimate_fee has returned an estimate while the snapshot was younger
\* than the interval, and has left it as it was
C29_Witness ==
    /\ Estimated
    /\ congestion.age > 0
    /\ congestion.age < CONGESTION_UPDATE_INTERVAL

\* the blocks of a chain that can be analyzed
Analyzable(chain) == {n \in DOMAIN chain.blocks : chain.blocks[n].readable}

\* C30: update_congestion samples the 10 most recent blocks, each block at
\* most once: no block contributes more than once to blocks_analyzed, also
\* when the chain has fewer than 10 blocks.  The chains of the model have
\* fewer than 10 blocks, so a snapshot stored counts the blocks of the chain
\* that can be analyzed.
C30_EachBlockOnce ==
    [][\A chain \in ChainViews :
          (/\ call' # None
           /\ congestion' # congestion
           /\ estimate_fee(call'[1].len, call'[1].strategy, chain,
                           call'[1].query)) =>
              congestion'.blocks_analyzed = Cardinality(Analyzable(chain))
      ]_vars

\* C35: the pending set holds at most one watch per transaction hash:
\* registering a hash that is pending replaces the earlier handle by a new
\* one (submitted_at now, first_seen_block unset), and the receiver of the
\* earlier caller is closed without ever receiving a TransactionStatus.
C35_RegistrationReplaces ==
    [][/\ (RecvRegistration /\ Head(queue).hash \in DOMAIN pending) =>
             LET m == Head(queue)
                 earlier == pending[m.hash].id
             IN  /\ DOMAIN pending' = DOMAIN pending
                 /\ pending'[m.hash].id = m.id
                 /\ pending'[m.hash].strategy = m.strategy
                 /\ pending'[m.hash].age = 0
                 /\ pending'[m.hash].first_seen = None
                 /\ earlier # m.id
                 /\ nsent'[earlier] = 0
                 /\ rx'[earlier] \in {"Closed", "Dropped"}
       /\ \A i \in WatchIds :
             (rx[i] = "Closed" /\ nsent[i] = 0) =>
                 (rx'[i] = "Closed" /\ nsent'[i] = 0)]_vars

\* the first watch of a hash was replaced by the second: its receiver is
\* closed, and the second is pending
C35_Witness ==
    /\ pc = "subscribed"
    /\ rx[1] = "Closed"
    /\ 1 \notin rejected
    /\ \E h \in DOMAIN pending : pending[h].id = 2

\* C36: every Finalized status delivered is self-consistent: its block_hash
\* is the hash of the finalized block whose number is its block_number,
\* also for a BlockConfirmations watch that completes while a later block
\* than the one of first sight is processed.
C36_HashOfNumberedBlock ==
    \A i \in DOMAIN delivered :
        delivered[i].status.kind = "Finalized" =>
            delivered[i].status.block_hash
                = BlockHashOf(delivered[i].status.block_number)

\* C37: a watch whose registration was sent before the stream delivers the
\* finalized block containing its hash is matched against that block,
\* whichever of the two ready events the loop of the monitor picks first: a
\* registration that is queued, and not replaced by a later one, when the
\* block is processed is seen in it or completed by it.
C37_QueuedWatchMatched ==
    [][\A k \in 1..Len(queue) :
          LET m == queue[k]
          IN  (/\ m.hash \in Hashes
               /\ \A j \in (k + 1)..Len(queue) : queue[j].hash # m.hash
               /\ \E content \in BlockContents :
                     content[m.hash].present /\ ProcessBlock(content, TRUE))
              => \/ m.id \in DOMAIN delivered'
                 \/ /\ m.hash \in DOMAIN pending'
                    /\ pending'[m.hash].id = m.id
                    /\ pending'[m.hash].first_seen = Some(lastBlock')]_vars

\* C38: a watch whose transaction has been seen in a finalized block
\* (first_seen_block set, further confirmations awaited) is never resolved
\* with a timeout failure by the cleanup sweep.
C38_SeenWatchNotTimedOut ==
    \A i \in DOMAIN delivered :
        delivered[i].by = "cleanup" => delivered[i].handle.first_seen = None

\* C39: between monitor steps every pending watch with first_seen_block set
\* waits for BlockConfirmations with required > 0 and was first seen in a
\* block already finalized; after each successfully processed block the
\* confirmations it has (the number of that block - first_seen_block) are
\* fewer than required, and no other step sets or changes first_seen_block.
\* Immediate and Finalized watches are never pending with first_seen_block set
SeenPending(map) == {h \in DOMAIN map : map[h].first_seen # None}

C39_SeenPendingAwaitsConfirmations ==
    /\ [](\A h \in SeenPending(pending) :
            /\ pending[h].strategy.kind = "BlockConfirmations"
            /\ pending[h].strategy.confirmations > 0
            /\ pending[h].first_seen[1] <= lastBlock)
    /\ [][IF \E content \in BlockContents : ProcessBlock(content, TRUE)
          THEN \A h \in SeenPending(pending') :
                  lastBlock' - pending'[h].first_seen[1]
                      < pending'[h].strategy.confirmations
          ELSE \A h \in SeenPending(pending') :
                  /\ h \in SeenPending(pending)
                  /\ pending'[h].first_seen = pending[h].first_seen
                  /\ pending'[h].strategy = pending[h].strategy]_vars

C39_Witness ==
    \E h \in SeenPending(pending) :
        /\ pending[h].strategy.kind = "BlockConfirmations"
        /\ pending[h].first_seen = Some(lastBlock)
        /\ pc = "subscribed"

\* C32: avg_block_fullness lies within [0, 1] in every congestion snapshot:
\* the default one, the one cached after any refresh, and the ones handed to
\* the callers of get_congestion and estimate_fee, however many extrinsics
\* the sampled blocks contain
InUnitInterval(r) == r.den > 0 /\ 0 <= r.num /\ r.num <= r.den

C32_FullnessWithinUnit ==
    /\ InUnitInterval(NetworkCongestion_default.avg_block_fullness)
    /\ InUnitInterval(congestion.avg_block_fullness)
    /\ Estimated => InUnitInterval(estimate[1].value.congestion.avg_block_fullness)
    /\ (observed # None /\ observed[1].op = "get_congestion") =>
            InUnitInterval(observed[1].value.avg_block_fullness)

\* a refresh has analyzed blocks that all exceed the maximum block weight
C32_Witness ==
    /\ congestion.blocks_analyzed > 0
    /\ congestion.avg_block_fullness = Ratio(1, 1)
    /\ Estimated

\* C34: for the same extrinsic length, the same answer of the runtime fee
\* query (or the fallback) and the same congestion snapshot, total_fee(Slow)
\* <= total_fee(Normal) <= total_fee(Fast); and each estimate returned is the
\* one of the strategy requested, whose name it carries
C34_TotalOrderedByStrategy ==
    /\ \A len \in ExtrinsicLengths, query \in QueryResults :
          /\ Estimate(len, "Slow", congestion, query).total_fee
                <= Estimate(len, "Normal", congestion, query).total_fee
          /\ Estimate(len, "Normal", congestion, query).total_fee
                <= Estimate(len, "Fast", congestion, query).total_fee
    /\ Estimated =>
          /\ estimate[1].value.strategy = call[1].strategy
          /\ estimate[1].value =
                Estimate(call[1].len, call[1].strategy,
                         estimate[1].value.congestion, call[1].query)
          /\ estimate[1].value.congestion = congestion

C34_Witness ==
    /\ Estimated
    /\ call[1].strategy = "Normal"
    /\ ~call[1].query.ok
    /\ congestion.level = "High"
    /\ Estimate(call[1].len, "Slow", congestion, call[1].query).total_fee
          < estimate[1].value.total_fee
    /\ estimate[1].value.total_fee
          < Estimate(call[1].len, "Fast", congestion, call[1].query).total_fee

\* the samples of a refresh, by offset from the latest block, and the ones
\* whose analysis succeeds
SampleOffsets == 0..(BLOCKS_TO_ANALYZE - 1)

SampleOf(chain, offset) ==
    analyze_block_congestion(chain, SampledBlock(chain.latest_number, offset))

AnalyzedOffsets(chain) == {o \in SampleOffsets : SampleOf(chain, o).ok}

RECURSIVE SumOver(_, _)
SumOver(f, S) ==
    IF S = {} THEN 0
    ELSE LET x == CHOOSE y \in S : TRUE IN f[x] + SumOver(f, S \ {x})

\* the averages over the samples analyzed successfully
AveragesOfAnalyzed ==
    [chain \in {view \in ChainViews : view.at_latest} |->
        LET offs == AnalyzedOffsets(chain)
            n == Cardinality(offs)
        IN  [blocks_analyzed |-> n,
             avg_block_fullness |->
                 IF n = 0 THEN Ratio(0, 1)
                 ELSE Ratio(SumOver([o \in offs |-> SampleOf(chain, o).value.fullness],
                                    offs),
                            MAX_BLOCK_EXTRINSICS * n),
             avg_fee |->
                 IF n = 0 THEN 0
                 ELSE SumOver([o \in offs |-> SampleOf(chain, o).value.avg_fee],
                              offs) \div n]]

\* the snapshot a refresh stores for each answer of the chain client that
\* has a block to analyze, and the answers that make it store a snapshot
StoredBy ==
    [chain \in {view \in DOMAIN AveragesOfAnalyzed :
                    update_congestion(NetworkCongestion_default, view).congestion
                        # NetworkCongestion_default} |->
        update_congestion(NetworkCongestion_default, chain).congestion]

ChainsStoring ==
    [snapshot \in {StoredBy[chain] : chain \in DOMAIN StoredBy} |->
        {chain \in DOMAIN StoredBy : StoredBy[chain] = snapshot}]

\* C31: in update_congestion the samples whose analysis errors out are
\* skipped: in any snapshot stored by a refresh blocks_analyzed is the number
\* of samples analyzed successfully, between 1 and 10, and
\* avg_block_fullness and avg_fee are the sums over exactly those samples
\* divided by blocks_analyzed.  A sample is counted per offset from the
\* latest block
C31_AveragesOverAnalyzed ==
    [][(call' # None /\ congestion' # congestion) =>
        /\ congestion'.blocks_analyzed \in 1..BLOCKS_TO_ANALYZE
        /\ congestion' \in DOMAIN ChainsStoring
        /\ ShouldUpdate(congestion)
        /\ \A chain \in ChainsStoring[congestion'] :
                  /\ congestion'.blocks_analyzed =
                        AveragesOfAnalyzed[chain].blocks_analyzed
                  /\ congestion'.avg_block_fullness =
                        AveragesOfAnalyzed[chain].avg_block_fullness
                  /\ congestion'.avg_fee = AveragesOfAnalyzed[chain].avg_fee
      ]_vars

\* a refresh has stored a snapshot of a chain some of whose samples failed
C31_Witness ==
    /\ Estimated
    /\ congestion.age = 0
    /\ congestion.blocks_analyzed > 0
    /\ congestion.blocks_analyzed < BLOCKS_TO_ANALYZE
    /\ congestion.avg_fee > DEFAULT_AVG_FEE

\* the fields of a snapshot that a refresh computes
Computed(c) ==
    [level |-> c.level, avg_block_fullness |-> c.avg_block_fullness,
     avg_fee |-> c.avg_fee, blocks_analyzed |-> c.blocks_analyzed]

\* the snapshot is the default one or what one refresh builds as a whole
WholeSnapshot(c) ==
    \/ Computed(c) = Computed(NetworkCongestion_default)
    \/ \E chain \in DOMAIN StoredBy : Computed(c) = Computed(StoredBy[chain])

Refreshing(t) == tasks[t].pc \in {"sampling", "storing"}

\* C33: the congestion snapshot is replaced wholesale.  When several callers
\* observe staleness and each run a refresh, the cached snapshot and every
\* value read by get_congestion or estimate_fee is the previous snapshot or
\* the complete result of one single refresh, never a mixture of fields of
\* different refreshes: a refresh stores the snapshot it has built in one
\* step, and no other step changes the cached one (but for its age).
\* get_congestion returns the cached snapshot while a refresh of another
\* caller is in progress, and does not disturb that refresh
C33_ReplacedWholesale ==
    /\ [](/\ WholeSnapshot(congestion)
          /\ \A t \in Callers :
                (tasks[t].value # None /\ tasks[t].value[1].ok) =>
                    WholeSnapshot(tasks[t].value[1].value))
    /\ [][\A t \in Callers :
            /\ (tasks[t].pc = "storing" /\ tasks'[t].pc = "reading") =>
                  congestion' = tasks[t].local[1]
            /\ (tasks[t].pc \in {"idle", "reading"} /\ tasks'[t].pc = "done") =>
                  /\ tasks'[t].value = Some(Ok(congestion))
                  /\ congestion' = congestion
                  /\ \A u \in Callers \ {t} : tasks'[u] = tasks[u]
            /\ (\A u \in Callers :
                    ~(tasks[u].pc = "storing" /\ tasks'[u].pc = "reading")) =>
                  Computed(congestion') = Computed(congestion)]_vars

\* a caller has read the cached snapshot by get_congestion while the other
\* one, which had seen it stale, holds a different snapshot to store
C33_Witness ==
    \E t \in Callers, u \in Callers :
        /\ tasks[t].pc = "done"
        /\ tasks[t].value = Some(Ok(congestion))
        /\ congestion.blocks_analyzed > 0
        /\ tasks[u].pc = "storing"
        /\ Computed(tasks[u].local[1]) # Computed(congestion)

====
